---- MODULE Spec2Model ----
(***************************************************************************)
(* Model of the proof-of-work solver of pow-key (src/src/hash.rs):         *)
(* HashWorkerFarm construction, HashWorker::solve, HashWorkerFarm::solve   *)
(* and HashWorkerFarm::run_test, over a scaled-down nonce and digest       *)
(* domain.                                                                 *)
(***************************************************************************)
EXTENDS Integers, Sequences, FiniteSets, TLC

(* ---- bounds: the scaled-down widths of the program's domains ---- *)
\* std::u64::MAX, the largest Nonce (2^64 - 1 in the program)
U64_MAX == 5
\* number of bytes of a Sha256Hash value (32 in the program)
HASH_LEN == 2
\* largest value of one byte of a digest (255 in the program)
BYTE_MAX == 2
\* largest num_workers handed to HashWorkerFarm::new (at most 255, a u8)
MaxWorkers == 2
\* number of ProgressMessageTick messages the timer thread sends
MaxTicks == 1
\* std::u32::MAX, the largest hash rate run_test can return (2^32 - 1)
U32_MAX == 2
\* run_test looks at the clock when attempt_count is a multiple of this
\* (10000 in the program)
RATE_CHECK_EVERY == 2
\* largest test_length_s handed to run_test, in seconds
MaxTestLength == 1
\* seconds the clock advances during one run_test
MaxElapsed == 2
\* largest value of one hex digit of the text form of a digest (15 in the
\* program); a byte of the text form is two digits
HEX_MAX == 1

Nonce == 0..U64_MAX
Byte == 0..BYTE_MAX

(* ---- Sha256Hash: a fixed-length byte array ---- *)
Sha256Hash == [1..HASH_LEN -> Byte]

\* the all-zero digest, the target of the test farm
ZeroHash == [i \in 1..HASH_LEN |-> 0]

\* mutant: the arrays are compared from their last byte
HashLess_FromLastByte(a, b) ==
    \E i \in 1..HASH_LEN :
        /\ a[i] < b[i]
        /\ \A j \in (i + 1)..HASH_LEN : a[j] = b[j]

\* derived Ord of Sha256Hash: lexicographic comparison of the byte arrays
HashLess(a, b) ==
    \E i \in 1..HASH_LEN :
        /\ a[i] < b[i]
        /\ \A j \in 1..(i - 1) : a[j] = b[j]

RECURSIVE BigEndian(_, _)
\* U256::from([u8; 32]): the first k bytes read as a big-endian integer
BigEndian(v, k) ==
    IF k = 0 THEN 0 ELSE BigEndian(v, k - 1) * (BYTE_MAX + 1) + v[k]

U256From(v) == BigEndian(v, HASH_LEN)

RECURSIVE Pow(_, _)
Pow(b, e) == IF e = 0 THEN 1 ELSE b * Pow(b, e - 1)

\* U256::from_str("ff..ff"): the largest digest value
max_attempts == Pow(BYTE_MAX + 1, HASH_LEN) - 1

(* ---- target calculus used by solve() before it spawns anything ---- *)
\* U256 division panics on a zero divisor; as_u64 panics when the quotient
\* does not fit in 64 bits
ExpectedAttemptsPanics(t) ==
    IF U256From(t) = 0 THEN TRUE
    ELSE max_attempts \div U256From(t) > U64_MAX

expected_attempts_to_solve(t) == max_attempts \div U256From(t)

RECURSIVE IsqrtFrom(_, _)
IsqrtFrom(x, r) == IF (r + 1) * (r + 1) > x THEN r ELSE IsqrtFrom(x, r + 1)

\* variance (1 - p) / p^2 with p = 1 / p_inv is p_inv * (p_inv - 1);
\* the square root is truncated by the cast to u64
standard_deviation_for_expected_attempts(t) ==
    LET p_inv == max_attempts \div U256From(t)
    IN  IsqrtFrom(p_inv * (p_inv - 1), 0)

\* the unreduced sums of p90_attempts_to_solve and p99_attempts_to_solve
P90Sum(t) ==
    expected_attempts_to_solve(t)
        + (128 * standard_deviation_for_expected_attempts(t)) \div 100

P99Sum(t) ==
    expected_attempts_to_solve(t)
        + (233 * standard_deviation_for_expected_attempts(t)) \div 100

\* the u64 additions of p90/p99 overflow: a panic with overflow checks,
\* a wrapped value (shown on a progress bar only) without them
PercentileOverflows(t) ==
    IF ExpectedAttemptsPanics(t) THEN FALSE
    ELSE IF P90Sum(t) > U64_MAX THEN TRUE ELSE P99Sum(t) > U64_MAX

(* ---- HashWorkerFarm::new: the worker ranges ---- *)
\* mutant: the share of a worker is rounded up
range_per_nonce_RoundedUp(num_workers) == (U64_MAX + num_workers - 1) \div num_workers

range_per_nonce(num_workers) == U64_MAX \div num_workers

\* the worker pushed in iteration i (0-based) of the construction loop
NewWorker(i, num_workers) ==
    LET nonce_marker == i * range_per_nonce(num_workers)
    IN  [start_nonce |-> nonce_marker,
         end_nonce   |-> IF i + 1 = num_workers
                         THEN U64_MAX
                         ELSE nonce_marker + range_per_nonce(num_workers)]

BuildWorkers(num_workers) ==
    [k \in 1..num_workers |-> NewWorker(k - 1, num_workers)]

(* ---- HashResponse: the messages of the channel ---- *)
\* mutant: a Success carries the nonce after the one tested
Success_NonceAfter(w, n, h) == [type |-> "Success", from |-> w, nonce |-> n + 1, hash |-> h, attempts |-> 0]

\* from is the sending worker (0 for the timer); the aggregator never reads it
Success(w, n, h) == [type |-> "Success", from |-> w, nonce |-> n, hash |-> h, attempts |-> 0]
Miss(w)          == [type |-> "Miss", from |-> w, nonce |-> 0, hash |-> ZeroHash, attempts |-> 0]
NoSolution(w)    == [type |-> "NoSolution", from |-> w, nonce |-> 0, hash |-> ZeroHash, attempts |-> 0]
ProgressMessageTick == [type |-> "ProgressMessageTick", from |-> 0, nonce |-> 0, hash |-> ZeroHash, attempts |-> 0]

\* what is known of hash_with_nonce(n): nothing yet, a digest below the
\* target (kept, a Success carries it), or a digest not below the target
\* (the worker drops the value of a miss)
Unhashed == [known |-> "no", hash |-> ZeroHash]
NotBelow == [known |-> "miss", hash |-> ZeroHash]
Below(h) == [known |-> "hit", hash |-> h]

None == "None"
NoPanic == "no panic"
NoCall == [op |-> "none"]

VARIABLES
    workers,            \* HashWorkerFarm.workers: the ranges
    target,             \* HashWorkerFarm.target
    digestOf,           \* hash_with_nonce of the farm's base, per nonce hashed so far
    channel,            \* messages sent to reply_handle and not yet received
    w_pc,               \* per worker thread: "unspawned", "scanning", "succeeded", "exhausted"
    w_n,                \* per worker thread: the loop variable n
    state,              \* the call: "NotStarted", "Running", "Solved", "Exhausted", "Panicked", "Returned"
    attempt_count,      \* local of solve() / run_test()
    completed_workers,  \* local of solve()
    result,             \* the value solve() returned
    timer_on,           \* the timer thread of solve() is running
    ticks_sent,         \* ticks the timer thread has sent
    panic_msg,          \* the message of the panic that ended the call, or NoPanic
    test_length_s,      \* argument of run_test
    elapsed,            \* start_time.elapsed().as_secs()
    calc,               \* the last call of a function of the target calculus or the codec
    receiver_dropped,   \* reply_handle was dropped with the farm: the channel is closed
    send_failed         \* per worker thread: a send of this worker has returned an Err

vars == <<workers, target, digestOf, channel, w_pc, w_n, state, attempt_count,
          completed_workers, result, timer_on, ticks_sent, panic_msg,
          test_length_s, elapsed, calc, receiver_dropped, send_failed>>

WorkerIds == 1..Len(workers)

\* the worker threads spawned so far on this farm: each call spawns one
\* thread per worker, threads 1..Len(workers) by the first call
ThreadIds == DOMAIN w_pc

\* the worker a thread runs a clone of: self.workers[i].clone()
WorkerOf(t) == ((t - 1) % Len(workers)) + 1

TypeOK ==
    /\ target \in Sha256Hash
    /\ state \in {"NoFarm", "NotStarted", "Running", "Solved", "Exhausted", "Panicked", "Returned"}
    /\ attempt_count \in Nat
    /\ completed_workers \in Nat

(* ---- construction ---- *)
\* the fields of a farm just built, and the locals of a call not yet made
Constructed(num_workers, t) ==
    /\ workers = BuildWorkers(num_workers)
    /\ target = t
    /\ digestOf = [n \in Nonce |-> Unhashed]
    /\ channel = <<>>
    /\ w_pc = [w \in 1..num_workers |-> "unspawned"]
    /\ w_n = [w \in 1..num_workers |-> NewWorker(w - 1, num_workers).start_nonce]
    /\ state = "NotStarted"
    /\ attempt_count = 0
    /\ completed_workers = 0
    /\ result = None
    /\ timer_on = FALSE
    /\ ticks_sent = 0
    /\ panic_msg = NoPanic
    /\ elapsed = 0
    /\ calc = NoCall
    /\ receiver_dropped = FALSE
    /\ send_failed = [w \in 1..num_workers |-> FALSE]

\* num_workers is a u8, far below u64::MAX
WorkerCounts == {k \in 1..MaxWorkers : k <= U64_MAX}

\* HashWorkerFarm::new(base, target, num_workers); base fixes digestOf
Init ==
    /\ \E num_workers \in WorkerCounts, t \in Sha256Hash : Constructed(num_workers, t)
    /\ test_length_s = 0

\* HashWorkerFarm::new_test(num_workers): the all-zero target
InitTest ==
    /\ \E num_workers \in WorkerCounts : Constructed(num_workers, ZeroHash)
    /\ test_length_s \in 0..MaxTestLength

(* ---- HashWorker::solve: one iteration of the loop, or the exit ---- *)
\* mutant: the comparison with the target is not strict
WorkerOutcome_NonStrict(w, n, h) ==
    IF ~HashLess(target, h) THEN Success(w, n, h) ELSE Miss(w)

\* the branch of the loop body: hash_result < self.target, for a worker
\* whose target is t
OutcomeFor(t, w, n, h) ==
    IF HashLess(h, t) THEN Success(w, n, h) ELSE Miss(w)

\* the outcome a worker sends for nonce n with digest h
WorkerOutcome(w, n, h) == OutcomeFor(target, w, n, h)

\* hash_with_nonce is a function of (base, nonce): any digest for a nonce
\* not hashed before, the same digest (or again a miss) for one hashed before
Hashes(n) ==
    CASE digestOf[n].known = "no"   -> Sha256Hash
      [] digestOf[n].known = "miss" -> {h \in Sha256Hash : ~HashLess(h, target)}
      [] digestOf[n].known = "hit"  -> {digestOf[n].hash}

Remember(h) == IF HashLess(h, target) THEN Below(h) ELSE NotBelow

\* Sender::send: the message is queued, or, the receiver gone, an Err comes back
AfterSend(msg) == IF receiver_dropped THEN channel ELSE Append(channel, msg)

\* mutant: an Err of send ends solve()
OnSendResult_ErrReturns(failed, pc) == IF failed THEN "stopped" ELSE pc

\* unwrap_or_else(|_| return): the return leaves the closure, not solve(),
\* which goes on to pc whether the send failed or not
OnSendResult(failed, pc) == pc

\* mutant: every other nonce is left out
Increment_ByTwo(n) == n + 2

\* n += 1
Increment(n) == n + 1

WorkerStep(w) ==
    /\ w_pc[w] = "scanning"
    /\ w_n[w] < workers[WorkerOf(w)].end_nonce
    /\ \E h \in Hashes(w_n[w]) :
        LET out == WorkerOutcome(w, w_n[w], h)
        IN  /\ digestOf' = [digestOf EXCEPT ![w_n[w]] = Remember(h)]
            /\ channel' = AfterSend(out)
            /\ send_failed' = [send_failed EXCEPT ![w] = @ \/ receiver_dropped]
            /\ IF out.type = "Success"
               THEN /\ w_pc' = [w_pc EXCEPT ![w] = "succeeded"]
                    /\ w_n' = w_n
               ELSE /\ w_pc' = [w_pc EXCEPT ![w] = OnSendResult(receiver_dropped, "scanning")]
                    /\ w_n' = [w_n EXCEPT ![w] = Increment(w_n[w])]
    /\ UNCHANGED <<calc, receiver_dropped, workers, target, state, attempt_count, completed_workers,
                   result, timer_on, ticks_sent,
                   panic_msg, test_length_s, elapsed>>

\* mutant: a worker reports NoSolution before the end of its range
WorkerExhaust_Early(w) ==
    /\ w_pc[w] = "scanning"
    /\ channel' = AfterSend(NoSolution(w))
    /\ send_failed' = [send_failed EXCEPT ![w] = @ \/ receiver_dropped]
    /\ w_pc' = [w_pc EXCEPT ![w] = "exhausted"]
    /\ UNCHANGED <<calc, receiver_dropped, workers, target, digestOf, w_n, state, attempt_count,
                   completed_workers, result, timer_on, ticks_sent,
                   panic_msg, test_length_s, elapsed>>

WorkerExhaust(w) ==
    /\ w_pc[w] = "scanning"
    /\ ~(w_n[w] < workers[WorkerOf(w)].end_nonce)
    /\ channel' = AfterSend(NoSolution(w))
    /\ send_failed' = [send_failed EXCEPT ![w] = @ \/ receiver_dropped]
    /\ w_pc' = [w_pc EXCEPT ![w] = "exhausted"]
    /\ UNCHANGED <<calc, receiver_dropped, workers, target, digestOf, w_n, state, attempt_count,
                   completed_workers, result, timer_on, ticks_sent,
                   panic_msg, test_length_s, elapsed>>

(* ---- the timer thread of solve() ---- *)
\* mutant: the timer thread ends when solve() has returned
TimerTick_EndsWithSolve ==
    /\ timer_on
    /\ state = "Running"
    /\ ticks_sent < MaxTicks
    /\ channel' = AfterSend(ProgressMessageTick)
    /\ ticks_sent' = ticks_sent + 1
    /\ UNCHANGED <<calc, receiver_dropped, send_failed, workers, target, digestOf, w_pc, w_n, state, attempt_count,
                   completed_workers, result, timer_on, panic_msg,
                   test_length_s, elapsed>>

TimerTick ==
    /\ timer_on
    /\ ticks_sent < MaxTicks
    /\ channel' = AfterSend(ProgressMessageTick)
    /\ ticks_sent' = ticks_sent + 1
    /\ UNCHANGED <<calc, receiver_dropped, send_failed, workers, target, digestOf, w_pc, w_n, state, attempt_count,
                   completed_workers, result, timer_on, panic_msg,
                   test_length_s, elapsed>>

(* ---- HashWorkerFarm::solve ---- *)
PreludePanic(t) ==
    IF U256From(t) = 0 THEN "division by zero"
    ELSE IF ExpectedAttemptsPanics(t) THEN "Integer overflow when casting to u64"
    ELSE "attempt to add with overflow"

\* the prelude computes the progress-bar maxima and may panic
SolvePanic ==
    /\ state = "NotStarted"
    /\ IF ExpectedAttemptsPanics(target) THEN TRUE ELSE PercentileOverflows(target)
    /\ state' = "Panicked"
    /\ panic_msg' = PreludePanic(target)
    /\ UNCHANGED <<calc, receiver_dropped, send_failed, workers, target, digestOf, channel, w_pc, w_n, attempt_count,
                   completed_workers, result, timer_on, ticks_sent,
                   test_length_s, elapsed>>

\* spawns one thread per worker and the timer thread
SolveStart ==
    /\ state = "NotStarted"
    /\ ~ExpectedAttemptsPanics(target)
    /\ state' = "Running"
    /\ attempt_count' = 0
    /\ completed_workers' = 0
    /\ w_pc' = [t \in ThreadIds |-> IF w_pc[t] = "unspawned" THEN "scanning" ELSE w_pc[t]]
    /\ w_n' = [t \in ThreadIds |-> IF w_pc[t] = "unspawned"
                                   THEN workers[WorkerOf(t)].start_nonce
                                   ELSE w_n[t]]
    /\ timer_on' = TRUE
    /\ UNCHANGED <<calc, receiver_dropped, send_failed, workers, target, digestOf, channel, result, ticks_sent,
                   panic_msg, test_length_s, elapsed>>

\* mutant: the worker's HashSolution is returned as it was sent
SolutionFor_AsSent(solution, count) ==
    [nonce |-> solution.nonce, attempts |-> solution.attempts, hash |-> solution.hash]

\* mutant: the successful hash is counted as an attempt
SolutionFor_CountsSuccess(solution, count) ==
    [nonce |-> solution.nonce, attempts |-> count + 1, hash |-> solution.hash]

\* the HashSolution solve() returns for a Success
SolutionFor(solution, count) ==
    [nonce |-> solution.nonce, attempts |-> count, hash |-> solution.hash]

\* mutant: the newest message is received first
NextResponse_Newest == channel[Len(channel)]

\* the response the loop over reply_handle.iter() receives next
NextResponse == Head(channel)

\* mutant: the return of a Solution stops the workers still scanning
SolveRecvSuccess_StopsWorkers ==
    /\ state = "Running"
    /\ channel # <<>>
    /\ NextResponse.type = "Success"
    /\ channel' = Tail(channel)
    /\ result' = SolutionFor(NextResponse, attempt_count)
    /\ state' = "Solved"
    /\ w_pc' = [w \in WorkerIds |-> IF w_pc[w] = "scanning" THEN "stopped" ELSE w_pc[w]]
    /\ UNCHANGED <<calc, receiver_dropped, send_failed, workers, target, digestOf, w_n, attempt_count,
                   completed_workers, timer_on, ticks_sent, panic_msg,
                   test_length_s, elapsed>>

SolveRecvSuccess ==
    /\ state = "Running"
    /\ channel # <<>>
    /\ NextResponse.type = "Success"
    /\ channel' = Tail(channel)
    /\ result' = SolutionFor(NextResponse, attempt_count)
    /\ state' = "Solved"
    /\ UNCHANGED <<calc, receiver_dropped, send_failed, workers, target, digestOf, w_pc, w_n, attempt_count,
                   completed_workers, timer_on, ticks_sent, panic_msg,
                   test_length_s, elapsed>>

SolveRecvMiss ==
    /\ state = "Running"
    /\ channel # <<>>
    /\ NextResponse.type = "Miss"
    /\ channel' = Tail(channel)
    /\ attempt_count' = attempt_count + 1
    /\ UNCHANGED <<calc, receiver_dropped, send_failed, workers, target, digestOf, w_pc, w_n, state,
                   completed_workers, result, timer_on, ticks_sent,
                   panic_msg, test_length_s, elapsed>>

\* mutant: the first NoSolution ends the call
AllCompleted_AnyWorker(completed) == completed >= 1

\* completed_workers == self.workers.len() as u8
AllCompleted(completed) == completed = Len(workers)

SolveRecvNoSolution ==
    /\ state = "Running"
    /\ channel # <<>>
    /\ NextResponse.type = "NoSolution"
    /\ channel' = Tail(channel)
    /\ completed_workers' = completed_workers + 1
    /\ state' = IF AllCompleted(completed_workers + 1) THEN "Exhausted" ELSE state
    /\ UNCHANGED <<calc, receiver_dropped, send_failed, workers, target, digestOf, w_pc, w_n, attempt_count,
                   result, timer_on, ticks_sent,
                   panic_msg, test_length_s, elapsed>>

\* mutant: a tick is counted as an attempt
SolveRecvTick_Counts ==
    /\ state = "Running"
    /\ channel # <<>>
    /\ NextResponse.type = "ProgressMessageTick"
    /\ channel' = Tail(channel)
    /\ attempt_count' = attempt_count + 1
    /\ UNCHANGED <<calc, receiver_dropped, send_failed, workers, target, digestOf, w_pc, w_n, state,
                   completed_workers, result, timer_on, ticks_sent,
                   panic_msg, test_length_s, elapsed>>

\* the tick prints the hash rate and moves the progress bars
SolveRecvTick ==
    /\ state = "Running"
    /\ channel # <<>>
    /\ NextResponse.type = "ProgressMessageTick"
    /\ channel' = Tail(channel)
    /\ UNCHANGED <<calc, receiver_dropped, send_failed, workers, target, digestOf, w_pc, w_n, state, attempt_count,
                   completed_workers, result, timer_on, ticks_sent,
                   panic_msg, test_length_s, elapsed>>

(* ---- HashWorkerFarm::run_test ---- *)
\* spawns one thread per worker; run_test starts no timer thread
RunTestStart ==
    /\ state = "NotStarted"
    /\ state' = "Running"
    /\ attempt_count' = 0
    /\ elapsed' = 0
    /\ w_pc' = [w \in WorkerIds |-> "scanning"]
    /\ w_n' = [w \in WorkerIds |-> workers[w].start_nonce]
    /\ UNCHANGED <<calc, receiver_dropped, send_failed, workers, target, digestOf, channel, completed_workers, result,
                   timer_on, ticks_sent, panic_msg, test_length_s>>

\* mutant: the attempts are divided by the test length, not by the time elapsed
HashRate_PerTestLength(count, secs) ==
    IF test_length_s = 0 THEN U32_MAX
    ELSE IF count \div test_length_s > U32_MAX THEN U32_MAX
    ELSE count \div test_length_s

\* hash_rate as u32: the quotient, saturated at u32::MAX
HashRate(count, secs) ==
    IF count \div secs > U32_MAX THEN U32_MAX ELSE count \div secs

\* mutant: a worker that completed its range is not fatal
RunTestRecv_ToleratesNoSolution ==
    /\ state = "Running"
    /\ channel # <<>>
    /\ channel' = Tail(channel)
    /\ LET response == NextResponse
           count == IF response.type = "Miss" THEN attempt_count + 1 ELSE attempt_count
       IN  CASE response.type = "Success" ->
                  /\ state' = "Panicked"
                  /\ panic_msg' = "A worker found a solution in a test farm"
                  /\ UNCHANGED <<attempt_count, result>>
             [] response.type \in {"Miss", "ProgressMessageTick", "NoSolution"} ->
                  /\ attempt_count' = count
                  /\ panic_msg' = panic_msg
                  /\ IF count % RATE_CHECK_EVERY = 0 /\ elapsed > test_length_s
                     THEN /\ state' = "Returned"
                          /\ result' = HashRate(count, elapsed)
                     ELSE UNCHANGED <<state, result>>
    /\ UNCHANGED <<calc, receiver_dropped, send_failed, workers, target, digestOf, w_pc, w_n, completed_workers,
                   timer_on, ticks_sent, test_length_s, elapsed>>

\* one iteration of the loop over reply_handle.iter(): the match, then the
\* look at the clock
RunTestRecv ==
    /\ state = "Running"
    /\ channel # <<>>
    /\ channel' = Tail(channel)
    /\ LET response == NextResponse
           count == IF response.type = "Miss" THEN attempt_count + 1 ELSE attempt_count
       IN  CASE response.type = "Success" ->
                  /\ state' = "Panicked"
                  /\ panic_msg' = "A worker found a solution in a test farm"
                  /\ UNCHANGED <<attempt_count, result>>
             [] response.type = "NoSolution" ->
                  /\ state' = "Panicked"
                  /\ panic_msg' = "A worker completed work in a test farm"
                  /\ UNCHANGED <<attempt_count, result>>
             [] response.type \in {"Miss", "ProgressMessageTick"} ->
                  /\ attempt_count' = count
                  /\ panic_msg' = panic_msg
                  /\ IF count % RATE_CHECK_EVERY = 0 /\ elapsed > test_length_s
                     THEN /\ state' = "Returned"
                          /\ result' = HashRate(count, elapsed)
                     ELSE UNCHANGED <<state, result>>
    /\ UNCHANGED <<calc, receiver_dropped, send_failed, workers, target, digestOf, w_pc, w_n, completed_workers,
                   timer_on, ticks_sent, test_length_s, elapsed>>

\* the wall clock moves on while run_test runs
ClockAdvance ==
    /\ state = "Running"
    /\ elapsed < MaxElapsed
    /\ elapsed' = elapsed + 1
    /\ UNCHANGED <<calc, receiver_dropped, send_failed, workers, target, digestOf, channel, w_pc, w_n, state,
                   attempt_count, completed_workers, result, timer_on,
                   ticks_sent, panic_msg, test_length_s>>

Next ==
    \/ SolvePanic
    \/ SolveStart
    \/ \E w \in ThreadIds : WorkerStep(w)
    \/ \E w \in ThreadIds : WorkerExhaust(w)
    \/ TimerTick
    \/ SolveRecvSuccess
    \/ SolveRecvMiss
    \/ SolveRecvNoSolution
    \/ SolveRecvTick

Spec == Init /\ [][Next]_vars

\* the farm is dropped once the call on it has returned: reply_handle goes
\* with it and the messages still queued with it, while the threads spawned
\* by the call hold their clones of the workers and run on
DropFarm ==
    /\ state \in {"Solved", "Exhausted", "Returned"}
    /\ ~receiver_dropped
    /\ receiver_dropped' = TRUE
    /\ channel' = <<>>
    /\ UNCHANGED <<calc, send_failed, workers, target, digestOf, w_pc, w_n, state,
                   attempt_count, completed_workers, result, timer_on,
                   ticks_sent, panic_msg, test_length_s, elapsed>>

NextDrop ==
    \/ Next
    \/ DropFarm

\* solve() on a farm that its owner drops afterwards
SpecDrop == Init /\ [][NextDrop]_vars

\* run_test on a farm built by new_test
NextTest ==
    \/ RunTestStart
    \/ \E w \in WorkerIds : WorkerStep(w)
    \/ \E w \in WorkerIds : WorkerExhaust(w)
    \/ RunTestRecv
    \/ ClockAdvance

SpecTest == InitTest /\ [][NextTest]_vars

\* run_test is public: it can be called on a farm built by new as well
InitRunTest ==
    /\ \E num_workers \in WorkerCounts, t \in Sha256Hash : Constructed(num_workers, t)
    /\ test_length_s \in 0..MaxTestLength

SpecRunTest == InitRunTest /\ [][NextTest]_vars

\* solve() with every thread scheduled again and again: the workers, the
\* timer and the thread that runs solve()
FairSpec ==
    /\ Spec
    /\ \A w \in 1..MaxWorkers :
        /\ WF_vars(w \in WorkerIds /\ WorkerStep(w))
        /\ WF_vars(w \in WorkerIds /\ WorkerExhaust(w))
    /\ WF_vars(TimerTick)
    /\ WF_vars(SolvePanic \/ SolveStart)
    /\ WF_vars(SolveRecvSuccess \/ SolveRecvMiss \/ SolveRecvNoSolution \/ SolveRecvTick)

(* ---- solve() called again on the same farm ---- *)
\* calls of solve() made on one farm
MaxCalls == 2

\* the calls made so far: each has spawned, or is about to spawn, one thread
\* per worker
CallsMade == Len(w_pc) \div Len(workers)

\* the threads of the calls before the present one
EarlierThreads == 1..(Len(w_pc) - Len(workers))

\* solve(&self) borrows the farm, so its owner can call it again once it has
\* returned: the workers, the channel and what is queued in it are the same,
\* the threads of the earlier call run on, and the call will spawn a thread
\* per worker of its own
CallAgain ==
    /\ state \in {"Solved", "Exhausted"}
    /\ ~receiver_dropped
    /\ CallsMade < MaxCalls
    /\ state' = "NotStarted"
    /\ result' = None
    /\ w_pc' = w_pc \o [w \in WorkerIds |-> "unspawned"]
    /\ w_n' = w_n \o [w \in WorkerIds |-> workers[w].start_nonce]
    /\ send_failed' = send_failed \o [w \in WorkerIds |-> FALSE]
    /\ UNCHANGED <<calc, receiver_dropped, workers, target, digestOf, channel,
                   attempt_count, completed_workers, timer_on, ticks_sent,
                   panic_msg, test_length_s, elapsed>>

NextAgain ==
    \/ Next
    \/ CallAgain

\* the targets of the farms called twice: zero, on which solve() panics, and
\* a one in the first byte, on which it runs
AgainTargets == {t \in Sha256Hash : t[1] <= 1 /\ \A i \in 2..HASH_LEN : t[i] = 0}

InitAgain ==
    /\ \E num_workers \in WorkerCounts, t \in AgainTargets : Constructed(num_workers, t)
    /\ test_length_s = 0

SpecAgain == InitAgain /\ [][NextAgain]_vars

(* ---- construction as a call: HashWorkerFarm::new and new_test ---- *)
\* mutant: construction does not fail
NewPanics_Never(num_workers) == FALSE

\* std::u64::MAX / num_workers as u64 panics on a zero divisor
NewPanics(num_workers) == num_workers = 0

\* the values num_workers can take: a u8 from the command line, zero included
WorkerCountArgs == {k \in 0..MaxWorkers : k <= U64_MAX}

\* construction panicked: there is no farm
ConstructionPanic ==
    /\ state' = "Panicked"
    /\ panic_msg' = "attempt to divide by zero"
    /\ UNCHANGED <<calc, receiver_dropped, send_failed, workers, target, digestOf, channel,
                   w_pc, w_n, attempt_count, completed_workers, result,
                   timer_on, ticks_sent, test_length_s, elapsed>>

\* the farm returned: the fields of Constructed, as the effect of the call
Build(num_workers, t) ==
    /\ workers' = BuildWorkers(num_workers)
    /\ target' = t
    /\ w_pc' = [w \in 1..num_workers |-> "unspawned"]
    /\ w_n' = [w \in 1..num_workers |-> NewWorker(w - 1, num_workers).start_nonce]
    /\ send_failed' = [w \in 1..num_workers |-> FALSE]
    /\ state' = "NotStarted"
    /\ UNCHANGED <<calc, receiver_dropped, digestOf, channel, attempt_count,
                   completed_workers, result, timer_on, ticks_sent, panic_msg,
                   test_length_s, elapsed>>

New ==
    /\ state = "NoFarm"
    /\ \E num_workers \in WorkerCountArgs, t \in Sha256Hash :
        IF NewPanics(num_workers)
        THEN ConstructionPanic
        ELSE Build(num_workers, t)

NewTest ==
    /\ state = "NoFarm"
    /\ \E num_workers \in WorkerCountArgs :
        IF NewPanics(num_workers)
        THEN ConstructionPanic
        ELSE Build(num_workers, ZeroHash)

\* before any farm is built
InitNew ==
    /\ workers = <<>>
    /\ target = ZeroHash
    /\ digestOf = [n \in Nonce |-> Unhashed]
    /\ channel = <<>>
    /\ w_pc = <<>>
    /\ w_n = <<>>
    /\ state = "NoFarm"
    /\ attempt_count = 0
    /\ completed_workers = 0
    /\ result = None
    /\ timer_on = FALSE
    /\ ticks_sent = 0
    /\ panic_msg = NoPanic
    /\ test_length_s = 0
    /\ elapsed = 0
    /\ calc = NoCall
    /\ receiver_dropped = FALSE
    /\ send_failed = <<>>

NextNew ==
    \/ NewTest
    \/ New
    \/ Next

\* a farm is built, or not, and solve() is called on it
SpecNew == InitNew /\ [][NextNew]_vars

(***************************************************************************)
(* Target calculus and digest codec: the functions called on their own     *)
(***************************************************************************)
\* how a call ends: with a value, with an Err handed to the caller, or in a panic
Returns(v) == [outcome |-> "ok", value |-> v]
Fails(msg) == [outcome |-> "error", msg |-> msg]
Panics(msg) == [outcome |-> "panic", msg |-> msg]

\* mutant: the bytes are written least significant first
to_big_endian_Little(x) ==
    [i \in 1..HASH_LEN |-> (x \div Pow(BYTE_MAX + 1, i - 1)) % (BYTE_MAX + 1)]

\* U256::to_big_endian: the value written most significant byte first
to_big_endian(x) ==
    [i \in 1..HASH_LEN |-> (x \div Pow(BYTE_MAX + 1, HASH_LEN - i)) % (BYTE_MAX + 1)]

\* Sha256Hash::target_for_hash_attempts_expected: U256 division panics on a
\* zero divisor
target_for_hash_attempts_expected(hash_attempts_expected) ==
    IF hash_attempts_expected = 0
    THEN Panics("division by zero")
    ELSE Returns(to_big_endian(max_attempts \div hash_attempts_expected))

\* mutant: the operands of the division are swapped
AttemptsToSolve_Swapped(t) ==
    IF U256From(t) = 0 THEN Panics("division by zero")
    ELSE Returns(U256From(t) \div max_attempts)

\* Sha256Hash::expected_attempts_to_solve as a call of its own
AttemptsToSolve(t) ==
    IF U256From(t) = 0 THEN Panics("division by zero")
    ELSE IF ExpectedAttemptsPanics(t) THEN Panics("Integer overflow when casting to u64")
    ELSE Returns(expected_attempts_to_solve(t))

\* the result of duration.parse::<humantime::Duration>(): an Err, or a span
\* of which target_for_duration reads the whole seconds
Unparseable == [parsed |-> FALSE, secs |-> 0]
Span(secs) == [parsed |-> TRUE, secs |-> secs]
Durations == {Unparseable} \cup {Span(secs) : secs \in 0..U64_MAX}

\* Sha256Hash::target_for_duration: the outcomes a build can produce.  The
\* u64 product panics with overflow checks and wraps without them.
target_for_duration(duration, hash_rate) ==
    IF ~duration.parsed
    THEN {Panics("called Result::unwrap() on an Err value")}
    ELSE IF duration.secs * hash_rate > U64_MAX
    THEN {Panics("attempt to multiply with overflow"),
          target_for_hash_attempts_expected((duration.secs * hash_rate) % (U64_MAX + 1))}
    ELSE {target_for_hash_attempts_expected(duration.secs * hash_rate)}

(* ---- text form of a digest ---- *)
\* the characters of an input string: the digit without case, the hex
\* letters in both cases, white space, anything else
DigitChar == [kind |-> "digit", val |-> 0]
LowerChar(v) == [kind |-> "lower", val |-> v]
UpperChar(v) == [kind |-> "upper", val |-> v]
SpaceChar == [kind |-> "space", val |-> 0]
OtherChar == [kind |-> "other", val |-> 0]
Char == {DigitChar, SpaceChar, OtherChar}
            \cup {LowerChar(v) : v \in 1..HEX_MAX}
            \cup {UpperChar(v) : v \in 1..HEX_MAX}

\* the length from_str asks for (64 in the program)
HexLen == 2 * HASH_LEN

\* the inputs tried: every string up to one character longer than asked for
Strings == UNION {[1..k -> Char] : k \in 0..(HexLen + 1)}

RECURSIVE FromHexFrom(_, _, _, _, _)
\* rustc_serialize from_hex from character i on: white space is skipped,
\* two digits make a byte, buf is a u8
FromHexFrom(s, i, modulus, buf, b) ==
    IF i > Len(s)
    THEN IF modulus = 0 THEN Returns(b) ELSE Fails("InvalidHexLength")
    ELSE IF s[i].kind = "space"
    THEN FromHexFrom(s, i + 1, modulus, buf, b)
    ELSE IF s[i].kind = "other"
    THEN Fails("InvalidHexCharacter")
    ELSE LET shifted == (buf * (HEX_MAX + 1) + s[i].val) % ((HEX_MAX + 1) * (HEX_MAX + 1))
         IN  IF modulus + 1 = 2
             THEN FromHexFrom(s, i + 1, 0, shifted, Append(b, shifted))
             ELSE FromHexFrom(s, i + 1, modulus + 1, shifted, b)

from_hex(s) == FromHexFrom(s, 1, 0, 0, <<>>)

\* impl FromStr for Sha256Hash: the decoded bytes are copied over a zeroed array
from_str(s) ==
    IF Len(s) # HexLen
    THEN Fails("Input must be 64 characters")
    ELSE LET r == from_hex(s)
         IN  IF r.outcome = "ok"
             THEN Returns([i \in 1..HASH_LEN |->
                              IF i <= Len(r.value) THEN r.value[i] ELSE 0])
             ELSE Fails("Serialization failed")

\* the character to_hex writes for a digit value: lowercase
HexDigit(v) == IF v = 0 THEN DigitChar ELSE LowerChar(v)

\* mutant: the low digit of a byte is written first
to_hex_LowDigitFirst(value) ==
    [k \in 1..(2 * Len(value)) |->
        IF k % 2 = 1
        THEN HexDigit(value[(k + 1) \div 2] % (HEX_MAX + 1))
        ELSE HexDigit(value[k \div 2] \div (HEX_MAX + 1))]

\* impl Display for Sha256Hash: value.to_hex(), two characters per byte
to_hex(value) ==
    [k \in 1..(2 * Len(value)) |->
        IF k % 2 = 1
        THEN HexDigit(value[(k + 1) \div 2] \div (HEX_MAX + 1))
        ELSE HexDigit(value[k \div 2] % (HEX_MAX + 1))]

(* ---- the bytes of a nonce ---- *)
RECURSIVE BytesToHold(_, _)
\* the least number of bytes, from k on, that hold every value up to x
BytesToHold(x, k) == IF Pow(BYTE_MAX + 1, k) > x THEN k ELSE BytesToHold(x, k + 1)

\* the length of the array nonce_to_bytes returns: the size of a u64 (8 in
\* the program)
NONCE_LEN == BytesToHold(U64_MAX, 1)

\* mutant: the bytes are written most significant first
nonce_to_bytes_BigEndian(nonce) ==
    [i \in 1..NONCE_LEN |->
        (nonce \div Pow(BYTE_MAX + 1, NONCE_LEN - i)) % (BYTE_MAX + 1)]

\* nonce_to_bytes: write_u64::<LittleEndian>, least significant byte first
nonce_to_bytes(nonce) ==
    [i \in 1..NONCE_LEN |-> (nonce \div Pow(BYTE_MAX + 1, i - 1)) % (BYTE_MAX + 1)]

\* TNonce::as_hex_bytes: the bytes of the nonce in hex
as_hex_bytes(nonce) == to_hex(nonce_to_bytes(nonce))

\* the bases tried: byte strings of length 0..1
Bases == {<<>>} \cup {<<b>> : b \in Byte}

\* Sha256Hasher::hash_with_nonce: the bytes handed to hash_impl
HashInput(base, nonce) == base \o nonce_to_bytes(nonce)

\* PowServer::unlock: the message written to the stream
UnlockMessage(nonce) == <<"u">> \o as_hex_bytes(nonce) \o <<"\n">>

\* the variables of the farm and its calls, which the calculus leaves alone
farm_vars == <<workers, target, digestOf, channel, w_pc, w_n, state, attempt_count,
               completed_workers, result, timer_on, ticks_sent, panic_msg,
               test_length_s, elapsed, receiver_dropped, send_failed>>

CallTargetForAttempts ==
    /\ calc.op = "none"
    /\ \E n \in 0..U64_MAX :
        calc' = [op |-> "target_for_hash_attempts_expected", n |-> n,
                 ret |-> target_for_hash_attempts_expected(n)]
    /\ UNCHANGED farm_vars

\* two targets computed and compared, as the unit test does
CallCompareTargets ==
    /\ calc.op = "none"
    /\ \E n1 \in 1..U64_MAX, n2 \in 1..U64_MAX :
        calc' = [op |-> "compare_targets", n1 |-> n1, n2 |-> n2,
                 t1 |-> target_for_hash_attempts_expected(n1).value,
                 t2 |-> target_for_hash_attempts_expected(n2).value]
    /\ UNCHANGED farm_vars

CallAttemptsToSolve ==
    /\ calc.op = "none"
    /\ \E t \in Sha256Hash :
        calc' = [op |-> "expected_attempts_to_solve", t |-> t, ret |-> AttemptsToSolve(t)]
    /\ UNCHANGED farm_vars

\* expected_attempts_to_solve of the target computed for n attempts
CallAttemptsOfTarget ==
    /\ calc.op = "none"
    /\ \E n \in 1..U64_MAX :
        calc' = [op |-> "attempts_of_target", n |-> n,
                 ret |-> AttemptsToSolve(target_for_hash_attempts_expected(n).value)]
    /\ UNCHANGED farm_vars

CallTargetForDuration ==
    /\ calc.op = "none"
    /\ \E duration \in Durations, hash_rate \in 0..U64_MAX :
        \E ret \in target_for_duration(duration, hash_rate) :
            calc' = [op |-> "target_for_duration", duration |-> duration,
                     hash_rate |-> hash_rate, ret |-> ret]
    /\ UNCHANGED farm_vars

\* a digest parsed from text and, when that succeeds, displayed again
CallFromStr ==
    /\ calc.op = "none"
    /\ \E s \in Strings :
        LET ret == from_str(s)
        IN  calc' = [op |-> "from_str", s |-> s, ret |-> ret,
                     shown |-> IF ret.outcome = "ok" THEN to_hex(ret.value) ELSE <<>>]
    /\ UNCHANGED farm_vars

\* the encodings of two nonces: what is hashed with a base, and what is sent
\* to the device
CallNonceToBytes ==
    /\ calc.op = "none"
    /\ \E base \in Bases, n1 \in Nonce, n2 \in Nonce :
        calc' = [op |-> "nonce_to_bytes", base |-> base, n1 |-> n1, n2 |-> n2,
                 bytes1 |-> nonce_to_bytes(n1), bytes2 |-> nonce_to_bytes(n2),
                 cat |-> HashInput(base, n1),
                 message |-> UnlockMessage(n1)]
    /\ UNCHANGED farm_vars

\* the test of one loop iteration of a worker, for a digest and a target
CallCompareDigests ==
    /\ calc.op = "none"
    /\ \E h \in Sha256Hash, t \in Sha256Hash :
        calc' = [op |-> "compare_digests", h |-> h, t |-> t,
                 less |-> HashLess(h, t),
                 outcome |-> OutcomeFor(t, 1, 0, h)]
    /\ UNCHANGED farm_vars

\* one call is made; no farm is run: the farm variables stay those of a
\* farm never started
InitCalc ==
    /\ Constructed(1, ZeroHash)
    /\ test_length_s = 0

NextCalc ==
    \/ CallTargetForAttempts
    \/ CallCompareTargets
    \/ CallAttemptsToSolve
    \/ CallAttemptsOfTarget
    \/ CallTargetForDuration
    \/ CallFromStr
    \/ CallNonceToBytes
    \/ CallCompareDigests

SpecCalc == InitCalc /\ [][NextCalc]_vars

(***************************************************************************)
(* PowServer: one request to the lock device and the reading of its answer *)
(***************************************************************************)
\* the literal prefix of the answer to a request the device refuses
ERROR == <<"E", "R", "R", "O", "R">>

\* str::starts_with
starts_with(s, prefix) ==
    /\ Len(s) >= Len(prefix)
    /\ SubSeq(s, 1, Len(prefix)) = prefix

\* the lines read_line can leave in response: nothing at the end of the
\* stream, or a first part followed by more text and, or not, a newline
ResponseLines ==
    {first \o rest :
        first \in {<<>>, <<"1">>, <<"0">>, ERROR, <<"E", "R", "R">>, <<"x">>},
        rest \in {<<>>, <<"\n">>, <<"x", "\n">>}}

\* what the stream does during one call: write succeeds or fails, read_line
\* fails or leaves a line
ReadErr == [ok |-> FALSE, line |-> <<>>]
ReadLine(line) == [ok |-> TRUE, line |-> line]
StreamOutcomes ==
    [write_ok : BOOLEAN, read : {ReadErr} \cup {ReadLine(l) : l \in ResponseLines}]

\* PowServer::open
open(io) ==
    IF ~io.write_ok THEN Fails("Connection")
    ELSE IF ~io.read.ok THEN Fails("Unknown")
    ELSE IF starts_with(io.read.line, ERROR) THEN Fails("InvalidOperationWhenLocked")
    ELSE IF starts_with(io.read.line, <<"1">>) THEN Returns("()")
    ELSE Fails("Unknown")

\* PowServer::unlock, after the message is built
unlock(nonce, io) ==
    IF ~io.write_ok THEN Fails("Connection")
    ELSE IF ~io.read.ok THEN Fails("Unknown")
    ELSE IF starts_with(io.read.line, <<"1">>) THEN Returns("()")
    ELSE IF starts_with(io.read.line, <<"0">>) THEN Fails("Unsuccessful")
    ELSE Fails("Unknown")

\* PowServer::get_status
get_status(io) ==
    IF ~io.write_ok THEN Fails("Connection")
    ELSE IF ~io.read.ok THEN Fails("Unknown")
    ELSE IF starts_with(io.read.line, <<"1">>) THEN Returns("Locked")
    ELSE IF starts_with(io.read.line, <<"0">>) THEN Returns("Unlocked")
    ELSE Fails("Unknown")

\* PowServer::get_base: the line is returned as it was read
get_base(io) ==
    IF ~io.write_ok THEN Fails("Connection")
    ELSE IF ~io.read.ok THEN Fails("Unknown")
    ELSE IF starts_with(io.read.line, ERROR) THEN Fails("InvalidOperationWhenUnlocked")
    ELSE Returns(io.read.line)

\* PowServer::get_target
get_target(io) ==
    IF ~io.write_ok THEN Fails("Connection")
    ELSE IF ~io.read.ok THEN Fails("Unknown")
    ELSE IF starts_with(io.read.line, ERROR) THEN Fails("InvalidOperationWhenUnlocked")
    ELSE Returns(io.read.line)

\* PowServer::lock: the target is checked and decoded before anything is written
LockRejectsTarget(t) ==
    IF Len(t) # HexLen THEN TRUE ELSE from_hex(t).outcome # "ok"

\* the message of lock: the decoded bytes over a zeroed array, not in hex
LockMessage(t) == <<"l">> \o from_str(t).value \o <<"\n">>

lock(t, io) ==
    IF LockRejectsTarget(t) THEN Fails("Unknown")
    ELSE IF ~io.write_ok THEN Fails("Connection")
    ELSE IF ~io.read.ok THEN Fails("Unknown")
    ELSE IF starts_with(io.read.line, ERROR) THEN Fails("InvalidOperationWhenLocked")
    ELSE Returns(io.read.line)

\* a call that wrote nothing and read nothing
NoIo == [write_ok |-> TRUE, read |-> ReadLine(<<>>)]

CallOpen ==
    /\ calc.op = "none"
    /\ \E io \in StreamOutcomes :
        calc' = [op |-> "open", used_stream |-> TRUE, io |-> io, ret |-> open(io)]
    /\ UNCHANGED farm_vars

CallUnlock ==
    /\ calc.op = "none"
    /\ \E nonce \in Nonce, io \in StreamOutcomes :
        calc' = [op |-> "unlock", used_stream |-> TRUE, io |-> io, nonce |-> nonce,
                 message |-> UnlockMessage(nonce), ret |-> unlock(nonce, io)]
    /\ UNCHANGED farm_vars

CallGetStatus ==
    /\ calc.op = "none"
    /\ \E io \in StreamOutcomes :
        calc' = [op |-> "get_status", used_stream |-> TRUE, io |-> io, ret |-> get_status(io)]
    /\ UNCHANGED farm_vars

CallGetBase ==
    /\ calc.op = "none"
    /\ \E io \in StreamOutcomes :
        calc' = [op |-> "get_base", used_stream |-> TRUE, io |-> io, ret |-> get_base(io)]
    /\ UNCHANGED farm_vars

CallGetTarget ==
    /\ calc.op = "none"
    /\ \E io \in StreamOutcomes :
        calc' = [op |-> "get_target", used_stream |-> TRUE, io |-> io, ret |-> get_target(io)]
    /\ UNCHANGED farm_vars

CallLock ==
    /\ calc.op = "none"
    /\ \E t \in Strings :
        IF LockRejectsTarget(t)
        THEN calc' = [op |-> "lock", used_stream |-> FALSE, io |-> NoIo, t |-> t,
                      message |-> <<>>, ret |-> lock(t, NoIo)]
        ELSE \E io \in StreamOutcomes :
                calc' = [op |-> "lock", used_stream |-> TRUE, io |-> io, t |-> t,
                         message |-> LockMessage(t), ret |-> lock(t, io)]
    /\ UNCHANGED farm_vars

NextNet ==
    \/ CallOpen
    \/ CallUnlock
    \/ CallGetStatus
    \/ CallGetBase
    \/ CallGetTarget
    \/ CallLock

\* one call on a connected PowServer
SpecNet == InitCalc /\ [][NextNet]_vars

(***************************************************************************)
(* Properties                                                              *)
(***************************************************************************)
InRange(w, n) == workers[w].start_nonce <= n /\ n < workers[w].end_nonce

SuccessesInChannel == {i \in DOMAIN channel : channel[i].type = "Success"}
MissesInChannel == Cardinality({i \in DOMAIN channel : channel[i].type = "Miss"})
TicksInChannel == Cardinality({i \in DOMAIN channel : channel[i].type = "ProgressMessageTick"})

RECURSIVE MissesSentUpTo(_)
\* the misses workers 1..k have sent: one per nonce a worker has passed
MissesSentUpTo(k) ==
    IF k = 0 THEN 0
    ELSE MissesSentUpTo(k - 1) + (w_n[k] - workers[k].start_nonce)

MissesSent == MissesSentUpTo(Len(workers))

\* C1: the ranges built by HashWorkerFarm::new are sorted ascending by start
\* and every nonce from 0 through u64::MAX inclusive lies in exactly one of
\* them.  Violated: the last range ends at u64::MAX, exclusive, so the nonce
\* u64::MAX lies in no range.
C1_RangesPartitionDomain ==
    /\ \A w \in WorkerIds : w > 1 => workers[w - 1].start_nonce < workers[w].start_nonce
    /\ \A n \in Nonce : Cardinality({w \in WorkerIds : InRange(w, n)}) = 1

\* C2: when solve() has returned a Solution, its digest is the hash of the
\* returned nonce and is strictly below the farm's target.
C2_SolutionBelowTarget ==
    state = "Solved" =>
        /\ digestOf[result.nonce] = Below(result.hash)
        /\ HashLess(result.hash, target)

C2_Witness ==
    /\ state = "Solved"
    /\ result.nonce > 0
    /\ digestOf[result.nonce] = Below(result.hash)

\* C3: the aggregator returns on the first Success it receives, with that
\* Success's nonce and digest and the attempt count so far; once it has
\* returned, the Solution never changes and nothing more is received, so a
\* Success sent later is never returned.
C3_FirstSuccessReturned ==
    [][ /\ ( /\ state = "Running"
             /\ channel # <<>>
             /\ Head(channel).type = "Success"
             /\ channel' = Tail(channel) )
           => /\ state' = "Solved"
              /\ result' = [nonce    |-> Head(channel).nonce,
                            attempts |-> attempt_count,
                            hash     |-> Head(channel).hash]
        /\ state = "Solved"
           => /\ state' = "Solved"
              /\ result' = result
              /\ Len(channel') >= Len(channel) ]_vars

\* a Success of another worker arrived after the return and stays unreturned
C3_Witness ==
    /\ state = "Solved"
    /\ result.attempts > 0
    /\ \E i \in SuccessesInChannel : channel[i].nonce # result.nonce

C5_ZeroTargetSolveRuns ==
    target = ZeroHash => state # "Panicked"

\* C6: under fair scheduling every solve() eventually ends Solved or
\* Exhausted.  Violated: solve() panics while it computes the progress-bar
\* maxima of a zero or small target.
C6_EventuallySolvedOrExhausted ==
    <>(state \in {"Solved", "Exhausted"})

\* C7: the returned nonce is the one of the first Success in arrival order:
\* every other worker that has sent a Success still has it waiting in the
\* channel.  It need not be the lowest valid nonce (the witness).
C7_FirstArrivalWins ==
    state = "Solved" =>
        /\ \E w \in WorkerIds : w_pc[w] = "succeeded" /\ w_n[w] = result.nonce
        /\ \A w \in WorkerIds :
            (w_pc[w] = "succeeded" /\ w_n[w] # result.nonce)
                => \E i \in SuccessesInChannel : channel[i].nonce = w_n[w]

\* a worker with a higher range won although a lower nonce is valid
C7_Witness ==
    /\ state = "Solved"
    /\ \E n \in Nonce : n < result.nonce /\ digestOf[n].known = "hit"

\* C8: while solve() runs the attempt counter is the number of Miss
\* responses received (sent and no longer in the channel), it never
\* decreases, and a returned Solution carries the number of Miss responses
\* received before the winning Success.
C8_AttemptCountIsMissesReceived ==
    [][ /\ state' = "Running" => attempt_count' = MissesSent' - MissesInChannel'
        /\ attempt_count' >= attempt_count
        /\ (state = "Running" /\ state' = "Solved")
              => result'.attempts = MissesSent - MissesInChannel ]_vars

C8_Witness ==
    /\ state = "Solved"
    /\ result.attempts >= 1
    /\ MissesInChannel >= 1

\* C9: receiving a progress tick changes neither the attempt counter, nor
\* the completed-worker counter, nor the state of the call, nor its result.
C9_TickChangesNothing ==
    [][ ( /\ state = "Running"
          /\ channel # <<>>
          /\ Head(channel).type = "ProgressMessageTick"
          /\ channel' = Tail(channel) )
        => UNCHANGED <<attempt_count, completed_workers, state, result>> ]_vars

\* a tick was received in the middle of a running solve()
C9_Witness ==
    /\ state = "Running"
    /\ ticks_sent >= 1
    /\ TicksInChannel = 0
    /\ attempt_count >= 1

\* C10: in the test farm no worker sends a Success, so run_test never
\* receives one.
C10_TestFarmNeverSucceeds ==
    target = ZeroHash =>
        /\ SuccessesInChannel = {}
        /\ \A w \in WorkerIds : w_pc[w] # "succeeded"
        /\ panic_msg # "A worker found a solution in a test farm"

\* the workers of a test farm have hashed, and run_test has counted misses
C10_Witness ==
    /\ target = ZeroHash
    /\ state = "Running"
    /\ attempt_count >= 2
    /\ \E n \in Nonce : digestOf[n] = NotBelow

\* a step of run_test that receives a response
Receives == state = "Running" /\ channel # <<>> /\ channel' = Tail(channel)

\* C11: when run_test receives a NoSolution or a Success it ends in a panic
\* and returns no hash rate; the panic is final.
C11_TestFarmOutcomeIsFatal ==
    [][ /\ (Receives /\ Head(channel).type \in {"NoSolution", "Success"})
           => (state' = "Panicked" /\ result' = None)
        /\ state = "Panicked"
           => (state' = "Panicked" /\ result' = None) ]_vars

\* a worker of a test farm completed its range and run_test panicked
C11_Witness ==
    /\ target = ZeroHash
    /\ state = "Panicked"
    /\ panic_msg = "A worker completed work in a test farm"
    /\ result = None

\* C12 as claimed: once the elapsed time exceeds test_length_s, run_test
\* returns at the next Miss or tick it receives.  Violated: the clock is read
\* only when attempt_count is a multiple of RATE_CHECK_EVERY.
C12_ReturnsAtNextOutcome ==
    [][ ( /\ Receives
          /\ Head(channel).type \in {"Miss", "ProgressMessageTick"}
          /\ elapsed > test_length_s )
        => state' = "Returned" ]_vars

\* C12 as amended: run_test returns at a Miss or tick it receives exactly
\* when, after it, attempt_count is a multiple of RATE_CHECK_EVERY and the
\* elapsed time exceeds test_length_s; the value is the whole part of
\* attempts / elapsed seconds, at most u32::MAX.
C12_ReturnsAtNextSampledOutcome ==
    [][ ( /\ Receives
          /\ Head(channel).type \in {"Miss", "ProgressMessageTick"} )
        => IF attempt_count' % RATE_CHECK_EVERY = 0 /\ elapsed > test_length_s
           THEN /\ state' = "Returned"
                /\ result' * elapsed <= attempt_count'
                /\ \/ result' = U32_MAX
                   \/ (result' + 1) * elapsed > attempt_count'
                /\ result' <= U32_MAX
           ELSE state' = "Running" ]_vars

\* run_test returned a rate that is neither zero nor saturated
C12_Witness ==
    /\ state = "Returned"
    /\ elapsed > test_length_s
    /\ attempt_count >= RATE_CHECK_EVERY
    /\ result >= 1
    /\ result < U32_MAX

IsHexDigit(c) == c.kind \in {"digit", "lower", "upper"}

\* C13: for n >= 1 the target for n expected attempts is the digest whose
\* big-endian value is floor(max_attempts / n); for n = 1 it is all-ones.
C13_TargetIsQuotient ==
    (calc.op = "target_for_hash_attempts_expected" /\ calc.n >= 1) =>
        /\ calc.ret.outcome = "ok"
        /\ calc.ret.value \in Sha256Hash
        /\ U256From(calc.ret.value) = max_attempts \div calc.n
        /\ calc.n = 1 => calc.ret.value = [i \in 1..HASH_LEN |-> BYTE_MAX]

\* a target below the all-ones digest was computed
C13_Witness ==
    /\ calc.op = "target_for_hash_attempts_expected"
    /\ calc.n >= 2
    /\ calc.ret.outcome = "ok"
    /\ HashLess(calc.ret.value, [i \in 1..HASH_LEN |-> BYTE_MAX])

\* C14: for 1 <= n1 < n2 the target for n1 attempts is not below the target
\* for n2 attempts in the ordering of digests.
C14_TargetsNonIncreasing ==
    (calc.op = "compare_targets" /\ calc.n1 < calc.n2) =>
        ~HashLess(calc.t1, calc.t2)

\* two attempt counts whose targets differ were compared
C14_Witness ==
    /\ calc.op = "compare_targets"
    /\ calc.n1 < calc.n2
    /\ HashLess(calc.t2, calc.t1)

\* C15: a request for zero expected attempts ends with an error handed to
\* the caller.  Violated: the division panics.
C15_ZeroAttemptsRejected ==
    /\ (calc.op = "target_for_hash_attempts_expected" /\ calc.n = 0)
          => calc.ret.outcome = "error"
    /\ ( /\ calc.op = "target_for_duration"
         /\ calc.duration.parsed
         /\ calc.duration.secs * calc.hash_rate = 0 )
          => calc.ret.outcome = "error"

\* C16: for every non-zero target expected_attempts_to_solve returns
\* floor(max_attempts / target).  Violated: as_u64 panics when the quotient
\* does not fit in 64 bits.
C16_AttemptsIsExactQuotient ==
    (calc.op = "expected_attempts_to_solve" /\ U256From(calc.t) # 0) =>
        /\ calc.ret.outcome = "ok"
        /\ calc.ret.value = max_attempts \div U256From(calc.t)

C18_DurationTargetUsesTrueProduct ==
    ( /\ calc.op = "target_for_duration"
      /\ calc.duration.parsed
      /\ calc.duration.secs * calc.hash_rate >= 1 ) =>
        /\ calc.ret.outcome = "ok"
        /\ U256From(calc.ret.value)
              = max_attempts \div (calc.duration.secs * calc.hash_rate)

\* C19: from_str accepts exactly the strings of HexLen hex digits and
\* decodes every byte from its two characters.  Violated: white space is
\* skipped, so a string of the right length with white space in it is
\* accepted and its missing bytes are zero.
C19_FromStrAcceptsOnlyHexDigits ==
    calc.op = "from_str" =>
        /\ calc.ret.outcome = "ok"
              <=> ( /\ Len(calc.s) = HexLen
                    /\ \A i \in DOMAIN calc.s : IsHexDigit(calc.s[i]) )
        /\ calc.ret.outcome = "ok"
              => \A i \in 1..HASH_LEN :
                    calc.ret.value[i]
                        = calc.s[2 * i - 1].val * (HEX_MAX + 1) + calc.s[2 * i].val

\* C20 as claimed: a digest is displayed as HexLen lowercase hex characters,
\* and the display of a parsed digest is the string parsed.  Violated:
\* uppercase letters (and white space) are accepted and displayed otherwise.
C20_DisplayRoundTrip ==
    (calc.op = "from_str" /\ calc.ret.outcome = "ok") =>
        /\ Len(calc.shown) = HexLen
        /\ \A i \in DOMAIN calc.shown : calc.shown[i].kind \in {"digit", "lower"}
        /\ calc.shown = calc.s

IsLowerHex(c) == c.kind \in {"digit", "lower"}

\* C20 as amended: a parsed digest is displayed as HexLen lowercase hex
\* characters, and a string of HexLen lowercase hex digits is accepted and
\* displayed again as it was written.
C20_LowercaseRoundTrip ==
    calc.op = "from_str" =>
        /\ calc.ret.outcome = "ok"
              => /\ Len(calc.shown) = HexLen
                 /\ \A i \in DOMAIN calc.shown : IsLowerHex(calc.shown[i])
        /\ (Len(calc.s) = HexLen /\ \A i \in DOMAIN calc.s : IsLowerHex(calc.s[i]))
              => /\ calc.ret.outcome = "ok"
                 /\ calc.shown = calc.s

\* a lowercase string whose bytes have two different digits was parsed
C20_Witness ==
    /\ calc.op = "from_str"
    /\ calc.ret.outcome = "ok"
    /\ \A i \in DOMAIN calc.s : IsLowerHex(calc.s[i])
    /\ \E i \in 1..HASH_LEN : calc.s[2 * i - 1] # calc.s[2 * i]
    /\ calc.shown = calc.s

\* C21: the encoding of a nonce has NONCE_LEN bytes, byte i (from 0) being
\* floor(n / 256^i) mod 256; two different nonces have different encodings;
\* the bytes hashed are the base followed by the encoding; the unlock message
\* carries the encoding as 2 * NONCE_LEN lowercase hex characters, two per
\* byte in the order of the bytes.
C21_NonceEncoding ==
    calc.op = "nonce_to_bytes" =>
        /\ Len(calc.bytes1) = NONCE_LEN
        /\ \A i \in 0..(NONCE_LEN - 1) :
              calc.bytes1[i + 1] = (calc.n1 \div Pow(BYTE_MAX + 1, i)) % (BYTE_MAX + 1)
        /\ calc.n1 # calc.n2 => calc.bytes1 # calc.bytes2
        /\ Len(calc.cat) = Len(calc.base) + NONCE_LEN
        /\ SubSeq(calc.cat, 1, Len(calc.base)) = calc.base
        /\ SubSeq(calc.cat, Len(calc.base) + 1, Len(calc.cat)) = calc.bytes1
        /\ Len(calc.message) = 2 * NONCE_LEN + 2
        /\ \A i \in 1..NONCE_LEN :
              /\ IsLowerHex(calc.message[2 * i])
              /\ IsLowerHex(calc.message[2 * i + 1])
              /\ calc.message[2 * i].val * (HEX_MAX + 1) + calc.message[2 * i + 1].val
                    = calc.bytes1[i]

\* a nonce that fills more than one byte was encoded, hashed with a base and sent
C21_Witness ==
    /\ calc.op = "nonce_to_bytes"
    /\ calc.n1 > BYTE_MAX
    /\ calc.n2 < calc.n1
    /\ calc.base # <<>>
    /\ calc.bytes1[1] # calc.bytes1[NONCE_LEN]

\* C22: the ordering a worker tests with agrees with the digests read as
\* unsigned big-endian integers, and the test is strict: the outcome is a
\* Success exactly when the digest's value is below the target's, so a digest
\* equal to the target is a Miss.
C22_OrderIsBigEndianAndStrict ==
    calc.op = "compare_digests" =>
        /\ calc.less <=> U256From(calc.h) < U256From(calc.t)
        /\ calc.outcome.type = "Success" <=> U256From(calc.h) < U256From(calc.t)
        /\ calc.outcome.type \in {"Success", "Miss"}
        /\ calc.h = calc.t => calc.outcome.type = "Miss"
        /\ calc.outcome.type = "Success" => calc.outcome.hash = calc.h

\* a digest equal to a non-zero target was tested
C22_Witness ==
    /\ calc.op = "compare_digests"
    /\ calc.h = calc.t
    /\ calc.t # ZeroHash
    /\ calc.outcome.type = "Miss"

DeviceOps == {"open", "unlock", "get_status", "get_base", "get_target", "lock"}

\* the call wrote its request and read a line
Answered == calc.op \in DeviceOps /\ calc.used_stream /\ calc.io.write_ok /\ calc.io.read.ok

\* C23: for every device operation an answer that begins with ERROR ends the
\* call with InvalidOperationWhenLocked or InvalidOperationWhenUnlocked.
\* Violated: unlock and get_status do not look for the prefix and end with
\* Unknown.
C23_ErrorPrefixIsInvalidOperation ==
    (Answered /\ starts_with(calc.io.read.line, ERROR)) =>
        /\ calc.ret.outcome = "error"
        /\ calc.ret.msg \in {"InvalidOperationWhenLocked", "InvalidOperationWhenUnlocked"}

\* C24: a failed write and a failed read_line both end the call with
\* Connection, and an answer 0 to unlock ends it with Unsuccessful.
\* Violated: a failed read_line ends every call with Unknown.
C24_IoFailureIsConnection ==
    /\ ( /\ calc.op \in DeviceOps
         /\ calc.used_stream
         /\ (~calc.io.write_ok \/ ~calc.io.read.ok) )
          => calc.ret = Fails("Connection")
    /\ (Answered /\ calc.op = "unlock" /\ starts_with(calc.io.read.line, <<"0">>))
          => calc.ret = Fails("Unsuccessful")

\* the messages of worker w waiting in the channel
FromWorker(w, ch) == SelectSeq(ch, LAMBDA m : m.from = w)

\* worker w has gone through one iteration of its loop in this step
Tested(w) ==
    /\ w_pc[w] = "scanning"
    /\ \/ w_n'[w] # w_n[w]
       \/ w_pc'[w] = "succeeded"

\* C25: a worker starts at start_nonce and tests the nonces one by one in
\* ascending order; each test puts one outcome at the end of the channel, a
\* Miss when the digest is not below the target, a Success with the nonce and
\* its digest when it is, after which the worker sends nothing more; the
\* aggregator takes the outcomes from the front of the channel, so those of
\* one worker in the order they were sent.
C25_AscendingOneOutcomePerNonce ==
    [][ /\ \/ channel' = channel
           \/ (channel # <<>> /\ channel' = Tail(channel))
           \/ ( /\ Len(channel') = Len(channel) + 1
                /\ SubSeq(channel', 1, Len(channel)) = channel )
        /\ \A w \in WorkerIds :
            /\ (w_pc[w] = "unspawned" /\ w_pc'[w] = "scanning")
                  => w_n'[w] = workers[w].start_nonce
            /\ Tested(w) =>
                  /\ w_n[w] < workers[w].end_nonce
                  /\ IF digestOf'[w_n[w]].known = "hit"
                     THEN /\ Len(channel') = Len(channel) + 1
                          /\ channel'[Len(channel')].type = "Success"
                          /\ channel'[Len(channel')].from = w
                          /\ channel'[Len(channel')].nonce = w_n[w]
                          /\ channel'[Len(channel')].hash = digestOf'[w_n[w]].hash
                          /\ HashLess(digestOf'[w_n[w]].hash, target)
                          /\ w_pc'[w] = "succeeded"
                          /\ w_n'[w] = w_n[w]
                     ELSE /\ digestOf'[w_n[w]].known = "miss"
                          /\ Len(channel') = Len(channel) + 1
                          /\ channel'[Len(channel')].type = "Miss"
                          /\ channel'[Len(channel')].from = w
                          /\ w_pc'[w] = "scanning"
                          /\ w_n'[w] = w_n[w] + 1
            /\ w_pc[w] = "succeeded" =>
                  /\ w_pc'[w] = "succeeded"
                  /\ w_n'[w] = w_n[w]
                  /\ Len(FromWorker(w, channel')) <= Len(FromWorker(w, channel)) ]_vars

\* a worker sent Misses and then its Success, and the aggregator has counted Misses
C25_Witness ==
    /\ attempt_count >= 1
    /\ \E w \in WorkerIds :
        /\ w_pc[w] = "succeeded"
        /\ w_n[w] >= workers[w].start_nonce + 2
        /\ \E i \in SuccessesInChannel : channel[i].from = w

\* C26: a worker sends NoSolution only when its loop variable has reached
\* end_nonce with every nonce of its range tested and missed, and when it is
\* there it sends nothing else; a worker that has sent NoSolution or Success
\* sends nothing more, so it sends one terminal outcome at most, after all
\* its Misses, and never both.
C26_OneTerminalOutcome ==
    [][ \A w \in WorkerIds :
            /\ (w_pc[w] = "scanning" /\ w_pc'[w] = "exhausted") =>
                  /\ w_n[w] = workers[w].end_nonce
                  /\ \A n \in Nonce : InRange(w, n) => digestOf[n].known = "miss"
                  /\ channel' = Append(channel, NoSolution(w))
            /\ ( /\ w_pc[w] = "scanning"
                 /\ w_n[w] >= workers[w].end_nonce
                 /\ <<w_pc[w], w_n[w]>> # <<w_pc'[w], w_n'[w]>> )
                  => w_pc'[w] = "exhausted"
            /\ w_pc[w] \in {"succeeded", "exhausted"} =>
                  /\ w_pc'[w] = w_pc[w]
                  /\ w_n'[w] = w_n[w]
                  /\ Len(FromWorker(w, channel')) <= Len(FromWorker(w, channel)) ]_vars

\* one worker went through its whole range and another found a solution
C26_Witness ==
    \E w1 \in WorkerIds, w2 \in WorkerIds :
        /\ w_pc[w1] = "exhausted"
        /\ w_pc[w2] = "succeeded"
        /\ w_n[w1] = workers[w1].end_nonce

\* worker w has run its loop body or left its loop in this step
WorkerMoves(w) == <<w_pc[w], w_n[w]>> # <<w_pc'[w], w_n'[w]>>

\* C27: the return of a Solution leaves every worker where it is; after it a
\* worker still scanning can always take its next step, each step tests the
\* next nonce or reports the end of the range, and, as long as the channel
\* is open, sends its outcome; a worker ends only by its own Success or by
\* reaching end_nonce.
C27_WorkersRunOnAfterSolved ==
    /\ [](state = "Solved" =>
            \A w \in WorkerIds :
                w_pc[w] = "scanning" => ENABLED (WorkerStep(w) \/ WorkerExhaust(w)))
    /\ [][ /\ (state = "Running" /\ state' = "Solved") => (w_pc' = w_pc /\ w_n' = w_n)
           /\ state = "Solved" =>
                \A w \in WorkerIds :
                    /\ w_pc'[w] \in {w_pc[w], "succeeded", "exhausted"}
                    /\ WorkerMoves(w) =>
                          /\ w_pc[w] = "scanning"
                          /\ receiver_dropped \/ Len(channel') = Len(channel) + 1
                          /\ w_pc'[w] = "succeeded" => digestOf'[w_n[w]].known = "hit"
                          /\ w_pc'[w] = "exhausted" => w_n[w] = workers[w].end_nonce
                          /\ w_pc'[w] = "scanning" => w_n'[w] = w_n[w] + 1 ]_vars

\* after solve() returned and the farm was dropped, another worker went on
\* to a solution of its own
C27_Witness ==
    /\ state = "Solved"
    /\ receiver_dropped
    /\ \E w \in WorkerIds :
        /\ w_pc[w] = "succeeded"
        /\ w_n[w] # result.nonce
        /\ send_failed[w]

\* C28: a send that fails neither ends the worker nor shortens its scan: with
\* the channel closed a scanning worker can always take its next step, goes
\* on to the next nonce after a Miss, and ends only by a Success of its own
\* or at end_nonce.
C28_FailedSendDoesNotStopScan ==
    /\ [](\A w \in WorkerIds :
            /\ w_pc[w] \in {"unspawned", "scanning", "succeeded", "exhausted"}
            /\ (receiver_dropped /\ w_pc[w] = "scanning")
                  => ENABLED (WorkerStep(w) \/ WorkerExhaust(w)))
    /\ [][ \A w \in WorkerIds :
            (receiver_dropped /\ WorkerMoves(w)) =>
                /\ w_pc[w] = "scanning"
                /\ send_failed'[w]
                /\ channel' = channel
                /\ w_pc'[w] \in {"scanning", "succeeded", "exhausted"}
                /\ w_pc'[w] = "succeeded" => digestOf'[w_n[w]].known = "hit"
                /\ w_pc'[w] = "exhausted" => w_n[w] = workers[w].end_nonce
                /\ w_pc'[w] = "scanning" =>
                      /\ w_n'[w] = w_n[w] + 1
                      /\ digestOf'[w_n[w]].known = "miss" ]_vars

\* a worker whose sends failed went on to the end of its range
C28_Witness ==
    /\ receiver_dropped
    /\ \E w \in WorkerIds :
        /\ send_failed[w]
        /\ w_pc[w] = "exhausted"
        /\ w_n[w] = workers[w].end_nonce
        /\ workers[w].end_nonce >= workers[w].start_nonce + 2

\* C29: a worker of which one send has failed makes no further attempt to
\* send.  Violated: the worker calls send again for every remaining nonce of
\* its range and at the end of the range.
C29_NoSendAfterFailedSend ==
    [][ \A w \in WorkerIds : send_failed[w] => ~WorkerMoves(w) ]_vars

\* C30: with share = floor(2^64 / num_workers), range i starts at i * share,
\* every range but the last has share nonces and the last one ends at 2^64.
\* Violated: the share is floor((2^64 - 1) / num_workers) and the last range
\* ends at 2^64 - 1.
C30_RangesOfEqualShare ==
    LET num_workers == Len(workers)
        share == (U64_MAX + 1) \div num_workers
    IN  \A w \in WorkerIds :
            /\ workers[w].start_nonce = (w - 1) * share
            /\ w < num_workers => workers[w].end_nonce = workers[w].start_nonce + share
            /\ w = num_workers => workers[w].end_nonce = U64_MAX + 1

\* C31: lock writes to the stream exactly when its target is HexLen hex
\* digits, and then the message is l, the bytes of the target, each decoded
\* from its two characters, and a newline.  Violated: white space in a target
\* of the right length is skipped, and the request is sent with the bytes
\* decoded so far followed by zeros.
C31_LockSendsOnlyWellFormedTarget ==
    calc.op = "lock" =>
        /\ calc.used_stream
              <=> ( /\ Len(calc.t) = HexLen
                    /\ \A i \in DOMAIN calc.t : IsHexDigit(calc.t[i]) )
        /\ ~calc.used_stream => (calc.ret.outcome = "error" /\ calc.message = <<>>)
        /\ calc.used_stream =>
              /\ Len(calc.message) = HASH_LEN + 2
              /\ calc.message[1] = "l"
              /\ calc.message[HASH_LEN + 2] = "\n"
              /\ \A i \in 1..HASH_LEN :
                    calc.message[i + 1]
                        = calc.t[2 * i - 1].val * (HEX_MAX + 1) + calc.t[2 * i].val

\* every nonce of every range was hashed and found not below the target
AllRangesMissed ==
    \A w \in WorkerIds, n \in Nonce : InRange(w, n) => digestOf[n].known = "miss"

\* C32: when solve() has returned None, every nonce of every worker's range
\* was hashed and its digest was not below the target.
C32_NoneMeansNoValidNonce ==
    state = "Exhausted" => AllRangesMissed

\* two workers went through their ranges; the nonce u64::MAX was never hashed
C32_Witness ==
    /\ state = "Exhausted"
    /\ Len(workers) = 2
    /\ \A n \in 0..(U64_MAX - 1) : digestOf[n] = NotBelow
    /\ digestOf[U64_MAX] = Unhashed

\* C34: the nonce solve() returned is the lowest valid one of the range it
\* lies in: every nonce of that range below it was hashed and missed.
C34_LowestInWorkerRange ==
    state = "Solved" =>
        /\ \E w \in WorkerIds : InRange(w, result.nonce)
        /\ \A w \in WorkerIds :
            InRange(w, result.nonce) =>
                \A n \in workers[w].start_nonce..(result.nonce - 1) :
                    digestOf[n].known = "miss"

\* the last nonce of the last range was returned
C34_Witness ==
    /\ state = "Solved"
    /\ Len(workers) = 2
    /\ result.nonce = workers[2].end_nonce - 1
    /\ result.nonce >= workers[2].start_nonce + 2

RECURSIVE RangeTotalUpTo(_)
\* the number of nonces in the ranges of workers 1..k
RangeTotalUpTo(k) ==
    IF k = 0 THEN 0
    ELSE RangeTotalUpTo(k - 1) + (workers[k].end_nonce - workers[k].start_nonce)

\* C36: when solve() has returned None, attempt_count is the number of
\* nonces in all ranges: every Miss was received before the last NoSolution.
C36_NoneCountsWholeRanges ==
    state = "Exhausted" =>
        /\ attempt_count = RangeTotalUpTo(Len(workers))
        /\ MissesInChannel = 0

\* the count of a farm of two workers that found nothing
C36_Witness ==
    /\ state = "Exhausted"
    /\ Len(workers) = 2
    /\ attempt_count = U64_MAX
    /\ completed_workers = 2

\* C37: when solve() returns a Solution, its attempts are at least the
\* nonces the finding worker tested before the returned one, and at most
\* the Misses all workers have sent by then.
C37_AttemptsBounds ==
    [][ (state = "Running" /\ state' = "Solved") =>
            /\ \A w \in WorkerIds :
                InRange(w, result'.nonce) =>
                    result'.attempts >= result'.nonce - workers[w].start_nonce
            /\ result'.attempts <= MissesSent ]_vars

\* Misses of another worker were counted too, and some were still waiting
C37_Witness ==
    /\ state = "Solved"
    /\ \E w \in WorkerIds :
        /\ InRange(w, result.nonce)
        /\ result.nonce > workers[w].start_nonce
        /\ result.attempts > result.nonce - workers[w].start_nonce
    /\ MissesInChannel >= 1

\* C40: no addition of the construction loop passes u64::MAX, the update of
\* nonce_marker after the last worker included; the loop variable of a worker
\* stays within start_nonce..end_nonce, so n += 1 does not pass u64::MAX.
C40_NoOverflow ==
    \A w \in WorkerIds :
        /\ w * range_per_nonce(Len(workers)) <= U64_MAX
        /\ workers[w].start_nonce + range_per_nonce(Len(workers)) <= U64_MAX
        /\ workers[w].start_nonce <= w_n[w]
        /\ w_n[w] <= workers[w].end_nonce
        /\ workers[w].end_nonce <= U64_MAX

\* the loop variable of the last worker reached u64::MAX
C40_Witness ==
    /\ Len(workers) = MaxWorkers
    /\ w_pc[Len(workers)] = "exhausted"
    /\ w_n[Len(workers)] = U64_MAX

\* a nonce of some range is known to have a digest below the target
ValidNonceFound ==
    \E w \in WorkerIds, n \in Nonce : InRange(w, n) /\ digestOf[n].known = "hit"

\* C33: under fair scheduling solve() on a target that some digest can be
\* below ends with a Solution unless every nonce of every range was hashed
\* and missed, and once a valid nonce is found it never returns None.
\* Violated: for a small target solve() panics while it computes the
\* progress-bar maxima, before any worker is spawned, whatever the digests.
C33_SolvableEventuallySolved ==
    /\ target # ZeroHash => <>(state = "Solved" \/ AllRangesMissed)
    /\ [](ValidNonceFound => state # "Exhausted")

\* the Senders of the farm's channel that are alive: response_sender and
\* the out_handle of each worker of the farm while the farm exists, the
\* clone of each worker thread still running, the clone of the timer thread
LiveSenders ==
    (IF receiver_dropped THEN 0 ELSE 1 + Len(workers))
        + Cardinality({w \in DOMAIN w_pc : w_pc[w] = "scanning"})
        + (IF timer_on THEN 1 ELSE 0)

\* C38: while solve() runs the farm exists and holds a Sender, so the
\* channel is not disconnected; the call ends only on a Success or on the
\* NoSolution that completes the count of workers; the timer thread, once
\* started, is never stopped and can send its next tick whatever the state
\* of the call.
C38_ChannelStaysConnectedTimerRunsOn ==
    /\ [](state = "Running" => (~receiver_dropped /\ LiveSenders >= 1))
    /\ []((timer_on /\ ticks_sent < MaxTicks) => ENABLED TimerTick)
    /\ [][ /\ timer_on => timer_on'
           /\ (state = "Running" /\ state' # "Running") =>
                /\ channel # <<>>
                /\ \/ (Head(channel).type = "Success" /\ state' = "Solved")
                   \/ ( /\ Head(channel).type = "NoSolution"
                        /\ completed_workers + 1 = Len(workers)
                        /\ state' = "Exhausted" ) ]_vars

\* solve() has returned None and the timer thread, which has not sent its
\* first tick yet, is still there
C38_Witness ==
    /\ state = "Exhausted"
    /\ ~receiver_dropped
    /\ timer_on
    /\ ticks_sent = 0
    /\ ENABLED TimerTick

\* C39: a farm that was built has at least one worker; a construction ends
\* either with such a farm or, for num_workers = 0, in a panic that leaves
\* no farm.
C39_NoFarmWithoutWorkers ==
    /\ [](state \in {"NotStarted", "Running", "Solved", "Exhausted"} => Len(workers) >= 1)
    /\ [][ state = "NoFarm" =>
             \/ (state' = "NotStarted" /\ Len(workers') >= 1)
             \/ ( /\ state' = "Panicked"
                  /\ workers' = <<>>
                  /\ panic_msg' = "attempt to divide by zero" ) ]_vars

\* C35: in a later call of solve() on the same farm, a Miss, Success or
\* NoSolution of a thread of an earlier call is neither counted nor returned,
\* and does not end the call.
C35_LaterCallIgnoresEarlierWorkers ==
    [][ ( /\ state = "Running"
          /\ channel # <<>>
          /\ channel' = Tail(channel)
          /\ Head(channel).from \in EarlierThreads )
        => UNCHANGED <<attempt_count, completed_workers, state, result>> ]_vars

\* a construction with no workers has panicked
C39_Witness ==
    /\ state = "Panicked"
    /\ workers = <<>>
    /\ panic_msg = "attempt to divide by zero"
====
